---- MODULE Spec2Model ----
(***************************************************************************)
(* A model of the DYNAMO front end of bpowers/dynamo: the scanner          *)
(* (dynLex), the recursive-descent parser (dynParser) and the timespec     *)
(* pass (extractTimespec).                                                 *)
(*                                                                         *)
(* Text is a sequence of one-character strings.  Offsets are Go's          *)
(* zero-based byte offsets: the byte at offset i of s is s[i+1].           *)
(***************************************************************************)
EXTENDS Integers, Sequences, FiniteSets, TLC

VARIABLES
    l,        \* the scanner: the fields of dynLex, the history of emitted tokens, its fault
    got,      \* the tokens a scan-only caller has received from Token()
    pc,       \* the caller's position
    typeTok,  \* stmtInto: the upper-cased type tag of the statement being parsed
    decl,     \* stmtInto: the declaration varDecl returned
    table,    \* tableDef: the y-values gathered so far
    body,     \* m.Body.List
    nerr,     \* dynParser.nerr
    errBuf,   \* dynParser.errBuf, one entry per diagnostic line
    ret,      \* what Parse returned
    preBody,  \* m.Body.List as it was when extractTimespec was called
    src       \* the pieces the input text was put together from

vars == <<l, got, pc, typeTok, decl, table, body, nerr, errBuf, ret, preBody, src>>

parserVars == <<typeTok, decl, table, body, nerr, errBuf, ret, preBody, src>>

----------------------------------------------------------------------------
(* Bounds of the model. *)

\* the number of lexemes of a scan-only input after its prefix
MaxLexemes == 3

\* the number of source lines of a parsed input after its title line
MaxLines == 2

\* the number of statements of a body handed directly to the timespec pass
MaxBody == 3

\* the number of tokens the scanner may emit before the model stops following it
MaxTokens == 12

\* the number of times the timespec pass is run over one model
MaxPasses == 2

----------------------------------------------------------------------------
(* Characters and their classes. *)

\* the rune next() returns at end of input
eof == "eof"

NL == "\n"

\* the backquote character that delimits a kind declaration
BackTick == "backquote"

Digits == {"0", "1", "2", "3", "4", "5", "6", "7", "8", "9"}

\* unicode.IsSpace, on the characters the inputs use
IsSpace(r) == r \in {" ", NL, "\t"}

IsDigit(r) == r \in Digits

isLiteralStart(r) == r = "\""

isOperator(r) == r \in {",", "+", "-", "*", "/", "|", "&", "=", "(", ")", "{", "}", "[", "]", ":"}

isIdentifierStart(r) == ~(IsDigit(r) \/ IsSpace(r) \/ isOperator(r))

isAlphaNumeric(r) == ~(IsSpace(r) \/ isOperator(r) \/ r = ";")

Keywords ==
    { <<"k", "i", "n", "d">>,
      <<"i", "m", "p", "o", "r", "t">>,
      <<"p", "a", "c", "k", "a", "g", "e">>,
      <<"m", "o", "d", "e", "l">>,
      <<"i", "n", "t", "e", "r", "f", "a", "c", "e">>,
      <<"s", "p", "e", "c", "i", "a", "l", "i", "z", "e", "s">> }

\* the token kinds after which emit sets the semi flag
SemiKindsMutant == {"itemIdentifier", "itemNumber", "itemKindDecl", "itemLiteral"}

SemiKindsMutantEOF ==
    {"itemRBracket", "itemRParen", "itemRSquare",
     "itemIdentifier", "itemNumber", "itemKindDecl", "itemLiteral", "itemEOF"}

SemiKinds ==
    {"itemRBracket", "itemRParen", "itemRSquare",
     "itemIdentifier", "itemNumber", "itemKindDecl", "itemLiteral"}

\* capacity of the items channel
ChanCapMutant == 2 - 1

ChanCap == 2

----------------------------------------------------------------------------
(* The scanner's cursor. Each operator takes the scanner record and gives  *)
(* the record after the call; the rune a call returns is a second operator.*)

\* the zero Token
NoToken == [pos |-> 0, val |-> <<>>, kind |-> "itemEOF"]

newLex(input) ==
    [s |-> input, pos |-> 0, start |-> 0, width |-> 0, last |-> NoToken,
     items |-> <<>>, state |-> "begin", semi |-> FALSE,
     out |-> <<>>, fault |-> "none"]

\* the rune next() returns
nextRune(L) == IF L.pos >= Len(L.s) THEN eof ELSE L.s[L.pos + 1]

\* the scanner after next(): at end of input neither pos nor width changes
next(L) ==
    IF L.pos >= Len(L.s) THEN L
    ELSE [L EXCEPT !.pos = L.pos + 1, !.width = 1]

backup(L) == [L EXCEPT !.pos = L.pos - L.width]

\* peek() returns nextRune(L) and leaves the scanner as afterPeek(L)
afterPeek(L) == backup(next(L))

ignore(L) == [L EXCEPT !.start = L.pos]

\* accept(valid): whether it accepted, and the scanner after it
accepts(valid, L) == nextRune(L) \in valid

accept(valid, L) == IF accepts(valid, L) THEN next(L) ELSE backup(next(L))

\* F applied to the value of x: x is computed once and F sees the result,
\* as a Go statement sees the receiver the statement before it left
With(x, F(_)) == CHOOSE r \in {F(v) : v \in {x}} : TRUE

RECURSIVE acceptRun(_, _)
acceptRun(valid, L) ==
    IF nextRune(L) \in valid THEN With(next(L), LAMBDA L1 : acceptRun(valid, L1))
    ELSE backup(next(L))

\* emit(ty): the slice l.s[l.start:l.pos] panics when start > pos, the send
\* blocks for ever when the channel is full
emit(L, ty) ==
    IF L.fault # "none" THEN L
    ELSE IF L.start > L.pos THEN [L EXCEPT !.fault = "panic"]
    ELSE IF Len(L.items) >= ChanCap THEN [L EXCEPT !.fault = "block"]
    ELSE LET t == [pos |-> L.pos, val |-> SubSeq(L.s, L.start + 1, L.pos), kind |-> ty]
         IN [L EXCEPT !.last = t,
                      !.items = Append(@, t),
                      !.out = Append(@, t),
                      !.start = L.pos,
                      !.semi = (ty \in SemiKinds)]

goto(L, st) == [L EXCEPT !.state = st]

lexErrorf(L) == goto(emit(L, "itemEOF"), "nil")

----------------------------------------------------------------------------
(* The state functions. *)

begin(L) ==
    IF nextRune(L) = "*" THEN goto(next(L), "comment")
    ELSE lexErrorf(next(L))

statement(L) ==
    LET r == nextRune(L)
        L1 == next(L)
    IN CASE r = eof ->
              goto(emit(IF L1.semi THEN emit(L1, "itemSemi") ELSE L1, "itemEOF"), "statement")
         [] r = "/" ->
              LET La == afterPeek(L1)
                  Lb == afterPeek(La)
              IN IF nextRune(L1) = "/" THEN goto(next(La), "comment")
                 ELSE IF nextRune(La) = "*" THEN goto(next(Lb), "multiComment")
                 ELSE goto(emit(Lb, "itemOperator"), "statement")
         [] r = BackTick -> goto(L1, "lexType")
         [] r = ";" -> goto(emit(L1, "itemSemi"), "statement")
         [] r # eof /\ r # "/" /\ r # BackTick /\ r # ";" /\ IsSpace(r) ->
              goto(ignore(IF r = NL /\ L1.semi THEN emit(L1, "itemSemi") ELSE L1), "statement")
         [] r # eof /\ r # "/" /\ r # BackTick /\ r # ";" /\ ~IsSpace(r)
               /\ (IsDigit(r) \/ r = ".") ->
              goto(backup(L1), "number")
         [] OTHER ->
              IF isLiteralStart(r) THEN goto(backup(L1), "literal")
              ELSE IF isIdentifierStart(r) THEN goto(backup(L1), "identifier")
              ELSE IF isOperator(r) THEN goto(backup(L1), "operator")
              ELSE lexErrorf(L1)

operator(L) ==
    LET r == nextRune(L)
        ty == CASE r = "{" -> "itemLBracket"
                [] r = "}" -> "itemRBracket"
                [] r = "(" -> "itemLParen"
                [] r = ")" -> "itemRParen"
                [] r = "[" -> "itemLSquare"
                [] r = "]" -> "itemRSquare"
                [] OTHER -> "itemOperator"
    IN goto(emit(next(L), ty), "statement")

\* for r := l.next(); r is none of stops and not eof; r = l.next() {}
RECURSIVE skipTo(_, _)
skipTo(stops, L) ==
    IF nextRune(L) \in stops \cup {eof} THEN next(L)
    ELSE With(next(L), LAMBDA L1 : skipTo(stops, L1))

comment(L) == goto(ignore(backup(skipTo({NL}, L))), "statement")

\* the loop of multiComment. When the text ends in '*' the peek at end of
\* input backs up over that '*' and the loop reads it again, for ever.
RECURSIVE multiCommentLoop(_)
multiCommentLoop(L) ==
    With(next(L), LAMBDA L1 :
    With(afterPeek(L1), LAMBDA L2 :
    LET r == nextRune(L)
    IN IF r = eof THEN backup(L1)
       ELSE IF r # "*" THEN multiCommentLoop(L1)
       ELSE IF nextRune(L1) = "/" THEN next(L2)
       ELSE IF nextRune(L1) = eof THEN [L2 EXCEPT !.fault = "hang"]
       ELSE multiCommentLoop(L2)))

multiComment(L) == goto(ignore(multiCommentLoop(L)), "statement")

\* lexType and literal after their opening delimiter
delimited(L, delim, ty) ==
    With(backup(skipTo({delim}, ignore(L))), LAMBDA L1 :
    With(afterPeek(L1), LAMBDA L2 :
    IF nextRune(L1) # delim THEN lexErrorf(L2)
    ELSE goto(ignore(next(emit(L2, ty))), "statement")))

lexType(L) == delimited(L, BackTick, "itemKindDecl")

number(L) ==
    With(acceptRun(Digits, L), LAMBDA L1 :
    With(accept({"."}, L1), LAMBDA L2 :
    With(acceptRun(Digits, L2), LAMBDA L3 :
    With(accept({"e", "E"}, L3), LAMBDA L4 :
    With(IF accepts({"e", "E"}, L3)
         THEN acceptRun(Digits, accept({"+", "-"}, L4))
         ELSE L4, LAMBDA L5 :
    goto(emit(L5, "itemNumber"), "statement"))))))

literal(L) == delimited(next(L), nextRune(L), "itemLiteral")

\* for isAlphaNumeric(l.next()) {}: isAlphaNumeric(0) is true and next()
\* returns 0 for ever at end of input
RECURSIVE identifierLoop(_)
identifierLoop(L) ==
    IF nextRune(L) = eof THEN [L EXCEPT !.fault = "hang"]
    ELSE IF isAlphaNumeric(nextRune(L)) THEN With(next(L), LAMBDA L1 : identifierLoop(L1))
    ELSE next(L)

identifier(L) ==
    With(identifierLoop(L), LAMBDA L1 :
    LET L2 == backup(L1)
        id == SubSeq(L2.s, L2.start + 1, L2.pos)
    IN IF L1.fault # "none" THEN L1
       ELSE goto(emit(L2, IF id \in Keywords THEN "itemKeyword" ELSE "itemIdentifier"),
                 "statement"))

----------------------------------------------------------------------------
(* Token(): a caller waiting for a token runs the scanner's current state  *)
(* while the channel is empty.                                             *)

ScanPCs == {"scan"}

ParsePCs == {"declModel", "stmtInto", "varDecl", "consumeEqual", "expr",
             "tableDef", "tableSep", "discardStmt"}

WantsToken == pc \in ScanPCs \cup ParsePCs

\* the default branch of Token's select, with l.state the state function st
RunState(st) ==
    /\ WantsToken
    /\ l.fault = "none"
    /\ l.items = <<>>
    /\ l.state = st
    /\ Len(l.out) < MaxTokens

Begin ==
    /\ RunState("begin")
    /\ l' = begin(l)
    /\ UNCHANGED <<got, pc, parserVars>>

Statement ==
    /\ RunState("statement")
    /\ l' = statement(l)
    /\ UNCHANGED <<got, pc, parserVars>>

Operator ==
    /\ RunState("operator")
    /\ l' = operator(l)
    /\ UNCHANGED <<got, pc, parserVars>>

Comment ==
    /\ RunState("comment")
    /\ l' = comment(l)
    /\ UNCHANGED <<got, pc, parserVars>>

MultiComment ==
    /\ RunState("multiComment")
    /\ l' = multiComment(l)
    /\ UNCHANGED <<got, pc, parserVars>>

LexType ==
    /\ RunState("lexType")
    /\ l' = lexType(l)
    /\ UNCHANGED <<got, pc, parserVars>>

Number ==
    /\ RunState("number")
    /\ l' = number(l)
    /\ UNCHANGED <<got, pc, parserVars>>

Literal ==
    /\ RunState("literal")
    /\ l' = literal(l)
    /\ UNCHANGED <<got, pc, parserVars>>

Identifier ==
    /\ RunState("identifier")
    /\ l' = identifier(l)
    /\ UNCHANGED <<got, pc, parserVars>>

\* l.state is nil after errorf: calling it is a nil dereference
NilState ==
    /\ RunState("nil")
    /\ l' = [l EXCEPT !.fault = "panic"]
    /\ UNCHANGED <<got, pc, parserVars>>

LexNext ==
    \/ Begin
    \/ Statement
    \/ Operator
    \/ Comment
    \/ MultiComment
    \/ LexType
    \/ Number
    \/ Literal
    \/ Identifier
    \/ NilState

\* a caller that only scans: each Token() call takes the next item
TokenCall ==
    /\ pc = "scan"
    /\ l.fault = "none"
    /\ l.items # <<>>
    /\ Len(got) < MaxTokens
    /\ got' = Append(got, Head(l.items))
    /\ l' = [l EXCEPT !.items = Tail(@)]
    /\ UNCHANGED <<pc, parserVars>>

----------------------------------------------------------------------------
(* Text helpers. *)

RECURSIVE Flatten(_)
Flatten(ws) == IF ws = <<>> THEN <<>> ELSE Head(ws) \o Flatten(Tail(ws))

SeqsUpTo(S, n) == UNION {[1..k -> S] : k \in 0..n}

LowerCase ==
    <<"a", "b", "c", "d", "e", "f", "g", "h", "i", "j", "k", "l", "m",
      "n", "o", "p", "q", "r", "s", "t", "u", "v", "w", "x", "y", "z">>

UpperCase ==
    <<"A", "B", "C", "D", "E", "F", "G", "H", "I", "J", "K", "L", "M",
      "N", "O", "P", "Q", "R", "S", "T", "U", "V", "W", "X", "Y", "Z">>

\* strings.ToUpper
ToUpper(str) ==
    [i \in 1..Len(str) |->
        IF \E k \in 1..26 : LowerCase[k] = str[i]
        THEN UpperCase[CHOOSE k \in 1..26 : LowerCase[k] = str[i]]
        ELSE str[i]]

----------------------------------------------------------------------------
(* The syntax tree. *)

NilExpr == [kind |-> "nil", value |-> <<>>, ys |-> <<>>, elts |-> <<>>]

BasicLit(text) == [kind |-> "BasicLit", value |-> text, ys |-> <<>>, elts |-> <<>>]

TableFwdExpr(ys) == [kind |-> "TableFwdExpr", value |-> <<>>, ys |-> ys, elts |-> <<>>]

CompositeLit(elts) == [kind |-> "CompositeLit", value |-> <<>>, ys |-> <<>>, elts |-> elts]

KeyValueExpr(key, value) == [key |-> key, value |-> value]

VarDecl(name, type) == [name |-> name, type |-> type]

AssignStmt(lhs, rhs) == [name |-> lhs.name, type |-> lhs.type, rhs |-> rhs]

TypeTags == {<<"L">>, <<"N">>, <<"C">>, <<"R">>, <<"A">>, <<"T">>}

typeIdentMutant(tag) ==
    CASE tag = <<"L">> -> "stock"
      [] tag = <<"N">> -> "initial"
      [] tag = <<"C">> -> "const"
      [] tag = <<"R">> -> "aux"
      [] tag = <<"A">> -> "flow"
      [] tag = <<"T">> -> "table"

typeIdent(tag) ==
    CASE tag = <<"L">> -> "stock"
      [] tag = <<"N">> -> "initial"
      [] tag = <<"C">> -> "const"
      [] tag = <<"R">> -> "flow"
      [] tag = <<"A">> -> "aux"
      [] tag = <<"T">> -> "table"

----------------------------------------------------------------------------
(* The parser. Token() and Peek() return the head of the channel; a parser *)
(* step that needs a token waits for the scanner to have put one there.    *)

HasToken == l.fault = "none" /\ l.items # <<>>

\* Peek(): the next token, left in place
Peek == Head(l.items)

\* the scanner after Token() has taken the next token
Taken == [l EXCEPT !.items = Tail(@)]

\* p.errorf: one line in errBuf and one more error
errorfMutant(tok, msg, arg) ==
    /\ errBuf' = Append(errBuf, [pos |-> tok.pos, msg |-> msg, arg |-> arg])
    /\ nerr' = nerr

errorf(tok, msg, arg) ==
    /\ errBuf' = Append(errBuf, [pos |-> tok.pos, msg |-> msg, arg |-> arg])
    /\ nerr' = nerr + 1

\* the loop of declModel, one turn
DeclModel ==
    /\ pc = "declModel"
    /\ HasToken
    /\ LET tok == Peek
       IN CASE tok.kind = "itemEOF" ->
                 /\ pc' = "extractTimespec"
                 /\ UNCHANGED <<l, nerr, errBuf>>
            [] tok.kind = "itemSemi" ->
                 /\ l' = Taken
                 /\ UNCHANGED <<pc, nerr, errBuf>>
            [] tok.kind = "itemIdentifier" /\ Len(tok.val) = 1 ->
                 /\ pc' = "stmtInto"
                 /\ UNCHANGED <<l, nerr, errBuf>>
            [] OTHER ->
                 /\ errorf(tok, "expected 1 char ident, not", tok.val)
                 /\ l' = Taken
                 /\ UNCHANGED pc
    /\ UNCHANGED <<got, typeTok, decl, table, body, ret, preBody, src>>

\* stmtInto up to its switch on the type tag
StmtInto ==
    /\ pc = "stmtInto"
    /\ HasToken
    /\ l' = Taken
    /\ LET val == ToUpper(Peek.val)
       IN IF val \in TypeTags
          THEN /\ typeTok' = val
               /\ pc' = "varDecl"
               /\ UNCHANGED <<nerr, errBuf>>
          ELSE /\ errorf(Peek, "unknown type:", val)
               /\ pc' = "declModel"
               /\ UNCHANGED typeTok
    /\ UNCHANGED <<got, decl, table, body, ret, preBody, src>>

VarDeclStep ==
    /\ pc = "varDecl"
    /\ HasToken
    /\ l' = Taken
    /\ LET nameTok == Peek
       IN IF nameTok.kind # "itemIdentifier"
          THEN /\ errorf(nameTok, "expected ident, not", typeTok)
               /\ pc' = "discardStmt"
               /\ UNCHANGED decl
          ELSE /\ decl' = VarDecl(nameTok.val, typeIdent(typeTok))
               /\ pc' = "consumeEqual"
               /\ UNCHANGED <<nerr, errBuf>>
    /\ UNCHANGED <<got, typeTok, table, body, ret, preBody, src>>

ConsumeEqual ==
    /\ pc = "consumeEqual"
    /\ HasToken
    /\ l' = Taken
    /\ IF Peek.val # <<"=">>
       THEN /\ errorf(Peek, "expected =, not", Peek.val)
            /\ pc' = "discardStmt"
       ELSE /\ pc' = (IF typeTok = <<"T">> THEN "tableDef" ELSE "expr")
            /\ UNCHANGED <<nerr, errBuf>>
    /\ table' = <<>>
    /\ UNCHANGED <<got, typeTok, decl, body, ret, preBody, src>>

\* expr(), and what stmtInto does with its result
Expr ==
    /\ pc = "expr"
    /\ HasToken
    /\ l' = Taken
    /\ IF Peek.kind = "itemNumber"
       THEN /\ body' = Append(body, AssignStmt(decl, BasicLit(Peek.val)))
            /\ pc' = "declModel"
       ELSE /\ pc' = "discardStmt"
            /\ UNCHANGED body
    /\ UNCHANGED <<got, typeTok, decl, table, nerr, errBuf, ret, preBody, src>>

\* tableDef at the top of its loop. On a token that is no number it returns
\* (nil, true), and stmtInto, reading the flag as success, appends the
\* assignment with that nil right-hand side.
TableDef ==
    /\ pc = "tableDef"
    /\ HasToken
    /\ l' = Taken
    /\ IF Peek.kind # "itemNumber"
       THEN /\ errorf(Peek, "expected float literal in table def, not", Peek.val)
            /\ body' = Append(body, AssignStmt(decl, NilExpr))
            /\ pc' = "declModel"
            /\ UNCHANGED table
       ELSE /\ table' = Append(table, Peek.val)
            /\ pc' = "tableSep"
            /\ UNCHANGED <<body, nerr, errBuf>>
    /\ UNCHANGED <<got, typeTok, decl, ret, preBody, src>>

\* tableDef after a value. At the terminator it returns (table, false), and
\* stmtInto, reading the flag as failure, drops the table and discards.
TableSep ==
    /\ pc = "tableSep"
    /\ HasToken
    /\ l' = Taken
    /\ CASE Peek.val = <<"/">> ->
              /\ pc' = "tableDef"
              /\ UNCHANGED <<nerr, errBuf>>
         [] Peek.val # <<"/">> /\ Peek.kind \in {"itemSemi", "itemEOF"} ->
              /\ pc' = "discardStmt"
              /\ UNCHANGED <<nerr, errBuf>>
         [] OTHER ->
              /\ errorf(Peek, "expected '/' in table def, not", Peek.val)
              /\ pc' = "tableDef"
    /\ UNCHANGED <<got, typeTok, decl, table, body, ret, preBody, src>>

\* discardStmt, one token
DiscardStmtMutant ==
    /\ pc = "discardStmt"
    /\ HasToken
    /\ l' = Taken
    /\ pc' = (IF Peek.kind = "itemSemi" THEN "declModel" ELSE "discardStmt")
    /\ UNCHANGED <<got, parserVars>>

DiscardStmt ==
    /\ pc = "discardStmt"
    /\ HasToken
    /\ l' = Taken
    /\ pc' = (IF Peek.kind \in {"itemEOF", "itemSemi"} THEN "declModel" ELSE "discardStmt")
    /\ UNCHANGED <<got, parserVars>>

----------------------------------------------------------------------------
(* Numbers. A float64 value is kept as the decimal m * 10^e with m not a   *)
(* multiple of ten (zero is m = 0, e = 0), which is exact for the short    *)
(* literals the inputs hold.                                               *)

DigitChars == <<"0", "1", "2", "3", "4", "5", "6", "7", "8", "9">>

DigitVal(c) == (CHOOSE n \in 1..10 : DigitChars[n] = c) - 1

RECURSIVE DigitsToInt(_)
DigitsToInt(ds) ==
    IF ds = <<>> THEN 0
    ELSE DigitsToInt(SubSeq(ds, 1, Len(ds) - 1)) * 10 + DigitVal(ds[Len(ds)])

RECURSIVE IntToDigits(_)
IntToDigits(n) ==
    IF n < 10 THEN <<DigitChars[n + 1]>>
    ELSE IntToDigits(n \div 10) \o <<DigitChars[(n % 10) + 1]>>

RECURSIVE Pow10(_)
Pow10(n) == IF n <= 0 THEN 1 ELSE 10 * Pow10(n - 1)

RECURSIVE Normalize(_, _)
Normalize(m, e) ==
    IF m = 0 THEN [m |-> 0, e |-> 0]
    ELSE IF m % 10 = 0 THEN Normalize(m \div 10, e + 1)
    ELSE [m |-> m, e |-> e]

\* the first index at or after i of text that holds no digit
RECURSIVE RunEnd(_, _)
RunEnd(text, i) ==
    IF i <= Len(text) /\ text[i] \in Digits THEN RunEnd(text, i + 1) ELSE i

\* strconv.ParseFloat on a decimal literal: digits, an optional point and
\* digits, an optional exponent; a mantissa or an exponent with no digit
\* is a syntax error
ParseFloat(text) ==
    With(RunEnd(text, 1), LAMBDA a :
    LET hasDot == a <= Len(text) /\ text[a] = "."
        b0 == IF hasDot THEN a + 1 ELSE a
    IN
    With(RunEnd(text, b0), LAMBDA b :
    LET intD == SubSeq(text, 1, a - 1)
        fracD == SubSeq(text, b0, b - 1)
        hasExp == b <= Len(text) /\ text[b] \in {"e", "E"}
        hasSign == hasExp /\ b + 1 <= Len(text) /\ text[b + 1] \in {"+", "-"}
        negExp == hasSign /\ text[b + 1] = "-"
        d0 == IF hasSign THEN b + 2 ELSE b + 1
    IN
    With(RunEnd(text, d0), LAMBDA d :
    LET expD == IF hasExp THEN SubSeq(text, d0, d - 1) ELSE <<>>
        stop == IF hasExp THEN d ELSE b
        exp == IF negExp THEN 0 - DigitsToInt(expD) ELSE DigitsToInt(expD)
        ok == /\ Len(intD) + Len(fracD) > 0
              /\ hasExp => Len(expD) > 0
              /\ stop = Len(text) + 1
    IN IF ok THEN [ok |-> TRUE, val |-> Normalize(DigitsToInt(intD \o fracD), exp - Len(fracD))]
       ELSE [ok |-> FALSE, val |-> [m |-> 0, e |-> 0]])))

\* constEval: the literal's text parsed as a float; anything that is no
\* literal fails
constEval(expr) ==
    IF expr.kind = "BasicLit" THEN ParseFloat(expr.value)
    ELSE [ok |-> FALSE, val |-> [m |-> 0, e |-> 0]]

\* n / d rounded to the nearest integer, ties to even
RoundHalfEven(n, d) ==
    LET q == n \div d
        r == n % d
    IN IF 2 * r > d \/ (2 * r = d /\ q % 2 = 1) THEN q + 1 ELSE q

RECURSIVE PadZeros(_, _)
PadZeros(ds, n) == IF Len(ds) >= n THEN ds ELSE PadZeros(<<"0">> \o ds, n)

\* the digits kept after the point by the format verb of floatLit
FracDigits == 6

\* fmt.Sprintf("%f", f)
FormatF(f) ==
    With(IF f.e + FracDigits >= 0
         THEN f.m * Pow10(f.e + FracDigits)
         ELSE RoundHalfEven(f.m, Pow10(0 - (f.e + FracDigits))), LAMBDA micro :
    With(Pow10(FracDigits), LAMBDA unit :
    IntToDigits(micro \div unit) \o <<".">> \o PadZeros(IntToDigits(micro % unit), FracDigits)))

floatLit(f) == BasicLit(FormatF(f))

----------------------------------------------------------------------------
(* The timespec pass. *)

Chars_TIME == <<"T", "I", "M", "E">>
Chars_LENGTH == <<"L", "E", "N", "G", "T", "H">>
Chars_SAVPER == <<"S", "A", "V", "P", "E", "R">>
Chars_DT == <<"D", "T">>
Chars_timespec == <<"t", "i", "m", "e", "s", "p", "e", "c">>

ReservedNames == {Chars_TIME, Chars_LENGTH, Chars_SAVPER, Chars_DT}

IsReserved(stmt) == ToUpper(stmt.name) \in ReservedNames

DecZero == [m |-> 0, e |-> 0]

DecOne == [m |-> 1, e |-> 0]

\* runtime.Timespec{DT: 1, SaveStep: 1}
DefaultTimespecMutant == [Start |-> DecZero, End |-> DecZero, DT |-> DecZero, SaveStep |-> DecOne]

DefaultTimespec == [Start |-> DecZero, End |-> DecZero, DT |-> DecOne, SaveStep |-> DecOne]

NoError == [failed |-> FALSE, name |-> <<>>]

\* the first loop of extractTimespec from statement i on (i counts from 1)
RECURSIVE evalLoop(_, _, _)
evalLoop(list, i, spec) ==
    IF i > Len(list) THEN [spec |-> spec, err |-> NoError]
    ELSE LET assign == list[i]
             up == ToUpper(assign.name)
             r == constEval(assign.rhs)
         IN IF up \notin ReservedNames THEN evalLoop(list, i + 1, spec)
            ELSE IF ~r.ok THEN [spec |-> spec, err |-> [failed |-> TRUE, name |-> assign.name]]
            ELSE evalLoop(list, i + 1,
                    CASE up = Chars_TIME -> [spec EXCEPT !.Start = r.val]
                      [] up = Chars_LENGTH -> [spec EXCEPT !.End = r.val]
                      [] up = Chars_SAVPER -> [spec EXCEPT !.SaveStep = r.val]
                      [] up = Chars_DT -> [spec EXCEPT !.DT = r.val])

\* append(list[:i], list[i+1:]...), i a Go index
RemoveAtMutant(list, i) == SubSeq(list, 1, i) \o SubSeq(list, i + 3, Len(list))

RemoveAt(list, i) == SubSeq(list, 1, i) \o SubSeq(list, i + 2, Len(list))

\* the index the removal loop goes on with after it removed element i:
\* i-- in the body and i++ in the loop header
AfterRemovalMutant(i) == i + 1

AfterRemoval(i) == (i - 1) + 1

\* the second loop of extractTimespec from Go index i on
RECURSIVE removeLoop(_, _)
removeLoop(list, i) ==
    IF i >= Len(list) THEN list
    ELSE IF IsReserved(list[i + 1]) THEN removeLoop(RemoveAt(list, i), AfterRemoval(i))
    ELSE removeLoop(list, i + 1)

\* the assignment extractTimespec builds
timespecStmt(spec) ==
    AssignStmt(VarDecl(Chars_timespec, "nil"),
               CompositeLit(<< KeyValueExpr("start", floatLit(spec.Start)),
                               KeyValueExpr("end", floatLit(spec.End)),
                               KeyValueExpr("dt", floatLit(spec.DT)),
                               KeyValueExpr("save_step", floatLit(spec.SaveStep)) >>))

\* extractTimespec(m): m.Body.List afterwards, and the error returned
extractTimespecMutant(list) ==
    With(evalLoop(list, 1, DefaultTimespec), LAMBDA ev :
    IF ev.err.failed THEN [list |-> removeLoop(list, 0), err |-> ev.err]
    ELSE [list |-> Append(removeLoop(list, 0), timespecStmt(ev.spec)), err |-> NoError])

extractTimespec(list) ==
    With(evalLoop(list, 1, DefaultTimespec), LAMBDA ev :
    IF ev.err.failed THEN [list |-> list, err |-> ev.err]
    ELSE [list |-> Append(removeLoop(list, 0), timespecStmt(ev.spec)), err |-> NoError])

\* the end of declModel: the timespec pass on the model named main
ExtractTimespec ==
    /\ pc = "extractTimespec"
    /\ \E r \in {extractTimespec(body)} :
          /\ body' = r.list
          /\ IF r.err.failed
             THEN errorf(NoToken, "extractTimespec: constEval", r.err.name)
             ELSE UNCHANGED <<nerr, errBuf>>
    /\ preBody' = body
    /\ pc' = "return"
    /\ UNCHANGED <<l, got, typeTok, decl, table, ret, src>>

\* what Parse returns for a given error count
ParseResultMutant(n, text) == [returned |-> TRUE, file |-> TRUE, err |-> n # 0, nerr |-> n, text |-> text]

ParseResult(n, text) ==
    IF n # 0
    THEN [returned |-> TRUE, file |-> FALSE, err |-> TRUE, nerr |-> n, text |-> text]
    ELSE [returned |-> TRUE, file |-> TRUE, err |-> FALSE, nerr |-> 0, text |-> <<>>]

\* dynParser.Parse returns to Parse, which returns to its caller
ParseReturn ==
    /\ pc = "return"
    /\ ret' = ParseResult(nerr, errBuf)
    /\ pc' = "done"
    /\ UNCHANGED <<l, got, typeTok, decl, table, body, nerr, errBuf, preBody, src>>

----------------------------------------------------------------------------
(* Parsed inputs: a title line, or none, followed by up to MaxLines lines. *)

Title == <<"*", NL>>

\* a constant, ended by the newline
Line_CX1 == <<"C", " ", "X", "=", "1", NL>>

\* a constant, ended by a semicolon
Line_CY2 == <<"C", " ", "Y", "=", "2", ";">>

\* a stock with a lower-case type tag
Line_ls3 == <<"l", " ", "s", "=", "3", NL>>

\* a flow followed by a line comment
Line_RF4 == <<"R", " ", "F", "=", "4", " ", "/", "/", " ", "c", NL>>

\* an initial value with a lower-case type tag
Line_nI == <<"n", " ", "I", "=", "0", NL>>

\* an auxiliary, ended by a semicolon
Line_AU == <<"A", " ", "U", "=", "5", ";">>

\* a table of two values
Line_TA == <<"T", " ", "A", "=", "2", "/", ".", "5", NL>>

\* a table of one value
Line_TB == <<"T", " ", "B", "=", "1", ";">>

\* no right-hand side
Line_NoRhs == <<"C", " ", "X", " ", "=", " ", NL>>

\* no = between name and value
Line_NoEq == <<"C", " ", "X", " ", "1", NL>>

\* the line ends after the name
Line_NoEqTerm == <<"C", " ", "X", NL>>

\* no name
Line_NoName == <<"C", " ", "=", "1", NL>>

\* a right-hand side that is no number
Line_BadRhs == <<"C", " ", "X", "=", "a", NL>>

\* a type tag outside L N C R A T
Line_BadTag == <<"Z", " ", "X", "=", "1", NL>>

\* a table value that is no number
Line_TBadValue == <<"T", " ", "A", "=", "a", NL>>

\* table values with no / between them
Line_TBadSep == <<"T", " ", "A", "=", "1", " ", "2", NL>>

\* a table with no value
Line_TNoValue == <<"T", " ", "A", "=", NL>>

\* a leading identifier of two characters
Line_Leader2 == <<"X", "Y", "=", "1", NL>>

\* DT with the degenerate number .
Line_DTdot == <<"C", " ", "D", "T", "=", ".", NL>>

\* DT in lower case
Line_dt == <<"c", " ", "d", "t", "=", ".", "5", NL>>

\* TIME with more than six decimals
Line_TIME == <<"C", " ", "T", "I", "M", "E", "=", "1", "e", "-", "7", NL>>

\* a block comment
Line_Block == <<"/", "*", " ", "c", " ", "*", "/">>

\* a kind declaration
Line_Kind == <<BackTick, "k", BackTick, NL>>

\* a quoted literal
Line_Quoted == <<"\"", "s", "\"", NL>>

\* a constant with no newline after its number
Line_EndNumber == <<"C", " ", "X", "=", "1">>

\* text that ends inside an identifier
Line_EndIdent == <<"C", " ", "X">>

\* a kind declaration that is never closed
Line_OpenKind == <<"C", " ", BackTick, "k">>

\* statements that parse and add no diagnostic
WellFormedLines == {Line_CX1, Line_CY2, Line_ls3, Line_RF4, Line_nI, Line_AU}

TableLines == {Line_TA, Line_TB}

\* statements that fail after their type tag
FailAfterTagLines == {Line_NoRhs, Line_NoEq, Line_NoEqTerm, Line_NoName, Line_BadRhs}

\* malformed statements, each on a line of its own
MalformedLines ==
    FailAfterTagLines \cup {Line_BadTag, Line_TBadValue, Line_TBadSep, Line_TNoValue}

Lines ==
    WellFormedLines \cup TableLines \cup MalformedLines \cup
    {Line_Leader2, Line_DTdot, Line_dt, Line_TIME, Line_Block, Line_Kind, Line_Quoted,
     Line_EndNumber, Line_EndIdent, Line_OpenKind}

ParsePrefixes == {<<Title>>, <<>>}

ParseSources == {p \o w : p \in ParsePrefixes, w \in SeqsUpTo(Lines, MaxLines)}

----------------------------------------------------------------------------
(* Scan-only inputs: a prefix followed by up to MaxLexemes lexemes. *)

Lexemes ==
    { <<NL>>, <<" ">>, <<"/">>, <<"*">>, <<BackTick>>, <<"\"">>, <<";">>,
      <<"1">>, <<".">>, <<"e">>, <<"-">>, <<")">>, <<"(">>,
      <<"k", "i", "n", "d">> }

LexPrefixes == { <<>>, <<"*">>, <<"*", NL>> }

LexSources == {<<p>> \o w : p \in LexPrefixes, w \in SeqsUpTo(Lexemes, MaxLexemes)}

----------------------------------------------------------------------------
(* Bodies handed directly to the timespec pass: assignments the parser can *)
(* build, with reserved and ordinary names.                                *)

Chars_POPN == <<"P", "O", "P", "N">>

StmtPool ==
    { AssignStmt(VarDecl(Chars_TIME, "const"), BasicLit(<<"2">>)),
      AssignStmt(VarDecl(<<"t", "i", "m", "e">>, "const"), BasicLit(<<"3">>)),
      AssignStmt(VarDecl(Chars_LENGTH, "const"), BasicLit(<<"1", "0">>)),
      AssignStmt(VarDecl(Chars_SAVPER, "const"), BasicLit(<<"2", ".">>)),
      AssignStmt(VarDecl(Chars_DT, "const"), BasicLit(<<".", "5">>)),
      AssignStmt(VarDecl(<<"D", "t">>, "aux"), BasicLit(<<"1", "e", "-", "7">>)),
      AssignStmt(VarDecl(Chars_DT, "const"), BasicLit(<<".">>)),
      AssignStmt(VarDecl(Chars_LENGTH, "table"), NilExpr),
      AssignStmt(VarDecl(Chars_POPN, "stock"), BasicLit(<<"1", "0", "0">>)),
      AssignStmt(VarDecl(Chars_timespec, "const"), BasicLit(<<"7">>)) }

Bodies == SeqsUpTo(StmtPool, MaxBody)

----------------------------------------------------------------------------
(* The specifications. *)

NoDecl == VarDecl(<<>>, "nil")

NoRet == [returned |-> FALSE, file |-> FALSE, err |-> FALSE, nerr |-> 0, text |-> <<>>]

InitParser ==
    /\ typeTok = <<>>
    /\ decl = NoDecl
    /\ table = <<>>
    /\ nerr = 0
    /\ errBuf = <<>>
    /\ ret = NoRet
    /\ preBody = <<>>

\* a caller that reads tokens until the model stops following it
InitLex ==
    /\ src \in LexSources
    /\ l = newLex(Flatten(src))
    /\ got = <<>>
    /\ pc = "scan"
    /\ body = <<>>
    /\ InitParser

NextLex == LexNext \/ TokenCall

SpecLex == InitLex /\ [][NextLex]_vars

\* Parse(f, fset, str)
Init ==
    /\ src \in ParseSources
    /\ l = newLex(Flatten(src))
    /\ got = <<>>
    /\ pc = "declModel"
    /\ body = <<>>
    /\ InitParser

ParserNext ==
    \/ DeclModel
    \/ StmtInto
    \/ VarDeclStep
    \/ ConsumeEqual
    \/ Expr
    \/ TableDef
    \/ TableSep
    \/ DiscardStmt
    \/ ExtractTimespec
    \/ ParseReturn

Next == LexNext \/ ParserNext

Spec == Init /\ [][Next]_vars

\* before Parse is called
InitCall ==
    /\ src = <<>>
    /\ l = newLex(<<>>)
    /\ got = <<>>
    /\ pc = "call"
    /\ body = <<>>
    /\ InitParser

\* Parse(f, fset, str) is called with some text
ParseCall ==
    /\ pc = "call"
    /\ src' \in ParseSources
    /\ l' = newLex(Flatten(src'))
    /\ pc' = "declModel"
    /\ UNCHANGED <<got, typeTok, decl, table, body, nerr, errBuf, ret, preBody>>

NextCall == ParseCall \/ Next

\* Parse runs on: the program is sequential and takes each step it can take
FairSpec == InitCall /\ [][NextCall]_vars /\ WF_vars(NextCall)

\* declModel at the end of its loop, for every body the loop can have built
InitTS ==
    /\ src = <<>>
    /\ l = newLex(<<>>)
    /\ got = <<>>
    /\ pc = "extractTimespec"
    /\ body \in Bodies
    /\ InitParser

NextTS == ExtractTimespec \/ ParseReturn

SpecTS == InitTS /\ [][NextTS]_vars

\* the timespec assignments the pass has appended to the body
Appended == {i \in 1..Len(body) : body[i].name = Chars_timespec /\ body[i].type = "nil"}

\* extractTimespec called once more on the model it has processed
ExtractTimespecAgain ==
    /\ pc = "return"
    /\ Appended # {}
    /\ Cardinality(Appended) < MaxPasses
    /\ LET r == extractTimespec(body)
       IN /\ body' = r.list
          /\ IF r.err.failed
             THEN errorf(NoToken, "extractTimespec: constEval", r.err.name)
             ELSE UNCHANGED <<nerr, errBuf>>
    /\ preBody' = body
    /\ UNCHANGED <<l, got, pc, typeTok, decl, table, ret, src>>

NextTwice == ExtractTimespec \/ ExtractTimespecAgain \/ ParseReturn

SpecTwice == InitTS /\ [][NextTwice]_vars

----------------------------------------------------------------------------
(* What the claims speak of. *)

Last(q) == q[Len(q)]

ValueLikeKinds ==
    {"itemIdentifier", "itemNumber", "itemKindDecl", "itemLiteral",
     "itemRBracket", "itemRParen", "itemRSquare"}

LastEmittedValueLike == l.out # <<>> /\ Last(l.out).kind \in ValueLikeKinds

\* the step in which the statement state reads a newline
ReadsNewlineInStatement ==
    /\ l.state = "statement"
    /\ l.items = <<>>
    /\ l.fault = "none"
    /\ nextRune(l) = NL
    /\ l'.pos = l.pos + 1

\* C1: when the scanner reads a newline in its statement state it emits
\* exactly one terminator if the token emitted last is an identifier, a
\* number, a kind declaration, a quoted literal or a closing bracket, paren
\* or square, and emits nothing otherwise (after an operator, a keyword, a
\* terminator, or before any token).
C1_TerminatorAtNewline ==
    [][ReadsNewlineInStatement =>
          l'.out = IF LastEmittedValueLike
                   THEN Append(l.out, [pos |-> l.pos + 1, val |-> <<NL>>, kind |-> "itemSemi"])
                   ELSE l.out]_vars

\* a terminator was inserted at a newline that follows a closing paren
C1_Witness ==
    /\ Len(l.out) >= 2
    /\ Last(l.out).kind = "itemSemi"
    /\ Last(l.out).val = <<NL>>
    /\ l.out[Len(l.out) - 1].kind = "itemRParen"

\* the text after the title line opens no comment, kind declaration or
\* quoted literal, so its last character belongs to its last token
PlainBody ==
    /\ Len(src) >= 2
    /\ src[1] = <<"*", NL>>
    /\ \A i \in 3..Len(l.s) : l.s[i] \notin {"/", BackTick, "\""}

\* the input ends, with no newline, in a number, an identifier or a closing paren
EndsValueLike == PlainBody /\ Last(l.s) \in Digits \cup {".", "e", ")"}

EndOfInputEmitted == \E i \in 1..Len(l.out) : l.out[i].kind = "itemEOF"

FirstEOF == CHOOSE i \in 1..Len(l.out) : l.out[i].kind = "itemEOF" /\ \A j \in 1..(i - 1) : l.out[j].kind # "itemEOF"

\* C2: for an input that begins with '*' and ends, with no trailing newline,
\* in a value-like token, the token sequence ends with exactly one terminator
\* immediately followed by the end-of-input token: the scanner gets there
\* (it neither hangs nor crashes), and the tokens before the end of input
\* are the value-like token and one terminator.
C2_TerminatorAtEndOfInput ==
    EndsValueLike =>
        /\ l.fault = "none"
        /\ EndOfInputEmitted =>
              /\ FirstEOF >= 3
              /\ l.out[FirstEOF - 1].kind = "itemSemi"
              /\ l.out[FirstEOF - 2].kind \in ValueLikeKinds
              /\ l.out[FirstEOF - 2].val # <<>>

StartsWithStar == l.s # <<>> /\ l.s[1] = "*"

\* C3: for an input whose first character is not '*', the scanner reports a
\* fatal error, Parse ends with a non-zero error count and returns an error
\* and no File, and no statement of the source is added to the body.
C3_NoStarFails ==
    (pc = "done" /\ ~StartsWithStar) =>
        /\ l.state = "nil"
        /\ nerr # 0
        /\ ret.err /\ ~ret.file
        /\ preBody = <<>>

\* the assignment a well-formed line stands for
ExpectedStmt(line) ==
    CASE line = Line_CX1 -> AssignStmt(VarDecl(<<"X">>, "const"), BasicLit(<<"1">>))
      [] line = Line_CY2 -> AssignStmt(VarDecl(<<"Y">>, "const"), BasicLit(<<"2">>))
      [] line = Line_ls3 -> AssignStmt(VarDecl(<<"s">>, "stock"), BasicLit(<<"3">>))
      [] line = Line_RF4 -> AssignStmt(VarDecl(<<"F">>, "flow"), BasicLit(<<"4">>))
      [] line = Line_nI -> AssignStmt(VarDecl(<<"I">>, "initial"), BasicLit(<<"0">>))
      [] line = Line_AU -> AssignStmt(VarDecl(<<"U">>, "aux"), BasicLit(<<"5">>))
      [] line = Line_TA -> AssignStmt(VarDecl(<<"A">>, "table"), TableFwdExpr(<< <<"2">>, <<".", "5">> >>))
      [] line = Line_TB -> AssignStmt(VarDecl(<<"B">>, "table"), TableFwdExpr(<< <<"1">> >>))

\* C4: a statement that fails after its type tag costs only itself: the
\* discard ends at the first terminator after the tag and the well-formed
\* statement on the next line is parsed and appended, as Y is in
\* 'C X = <newline> C Y=2;'.
C4_RecoveryBounded ==
    \A bad \in FailAfterTagLines, good \in WellFormedLines :
        (pc = "done" /\ src = <<Title, bad, good>>) => preBody = <<ExpectedStmt(good)>>

\* C5: Parse returns a File and no error exactly when the error count is 0;
\* otherwise it returns no File and one error that carries the count and
\* every diagnostic line, and the lines are in the order they were
\* produced: the buffer only ever grows at its end, one line per error.
C5_ParseResult ==
    /\ [](ret.returned =>
            /\ (ret.file /\ ~ret.err) <=> (nerr = 0)
            /\ nerr # 0 => (~ret.file /\ ret.err /\ ret.nerr = nerr /\ ret.text = errBuf)
            /\ Len(errBuf) = nerr)
    /\ [][errBuf' # errBuf =>
            /\ nerr' = nerr + 1
            /\ Len(errBuf') = Len(errBuf) + 1
            /\ SubSeq(errBuf', 1, Len(errBuf)) = errBuf]_vars

\* Parse returned an error that carries two diagnostics
C5_Witness == ret.returned /\ ret.err /\ Len(ret.text) = 2 /\ ret.text[1] # ret.text[2]

PassRan == pc \in {"return", "done"}

PassFailed == errBuf # <<>> /\ Last(errBuf).msg = "extractTimespec: constEval"

Synthesized(stmt) == stmt.name = Chars_timespec /\ stmt.type = "nil" /\ stmt.rhs.kind = "CompositeLit"

NoReservedLeft == \A i \in 1..Len(body) : ~IsReserved(body[i])

OneTimespecLast ==
    /\ body # <<>>
    /\ Synthesized(Last(body))
    /\ \A i \in 1..(Len(body) - 1) : ~Synthesized(body[i])

\* C6 as claimed: after the timespec pass has run, for every body, no
\* assignment is named TIME, LENGTH, SAVPER or DT in any letter case, and
\* exactly one synthesized timespec assignment exists, in last place.
C6_Original == PassRan => (NoReservedLeft /\ OneTimespecLast)

\* C6 as amended: the same, whenever the pass returned no error.
C6_Amended == (PassRan /\ ~PassFailed) => (NoReservedLeft /\ OneTimespecLast)

\* the pass succeeded on a body with two reserved assignments in a row
C6_Witness ==
    /\ PassRan /\ ~PassFailed
    /\ \E i \in 1..(Len(preBody) - 1) : IsReserved(preBody[i]) /\ IsReserved(preBody[i + 1])

\* the value of the last assignment of the body named so, or the default
RECURSIVE AssignedValue(_, _, _)
AssignedValue(list, name, default) ==
    IF list = <<>> THEN default
    ELSE IF ToUpper(Last(list).name) = name THEN ParseFloat(Last(list).rhs.value).val
    ELSE AssignedValue(SubSeq(list, 1, Len(list) - 1), name, default)

EltIs(elts, i, key, val) ==
    /\ elts[i].key = key
    /\ elts[i].value.kind = "BasicLit"
    /\ ParseFloat(elts[i].value.value) = [ok |-> TRUE, val |-> val]

\* C7: the timespec value has the four entries start, end, dt, save_step in
\* this order, equal to the evaluated values of the assignments named TIME,
\* LENGTH, DT and SAVPER, or to the defaults 0, 0, 1, 1.
C7_TimespecValues ==
    (PassRan /\ ~PassFailed) =>
        LET elts == Last(body).rhs.elts
        IN /\ Len(elts) = 4
           /\ EltIs(elts, 1, "start", AssignedValue(preBody, Chars_TIME, DecZero))
           /\ EltIs(elts, 2, "end", AssignedValue(preBody, Chars_LENGTH, DecZero))
           /\ EltIs(elts, 3, "dt", AssignedValue(preBody, Chars_DT, DecOne))
           /\ EltIs(elts, 4, "save_step", AssignedValue(preBody, Chars_SAVPER, DecOne))

RECURSIVE NonReserved(_)
NonReserved(list) ==
    IF list = <<>> THEN <<>>
    ELSE IF IsReserved(Head(list)) THEN NonReserved(Tail(list))
    ELSE <<Head(list)>> \o NonReserved(Tail(list))

AllButLast(q) == SubSeq(q, 1, Len(q) - 1)

\* C8 as claimed: for any body, the body after the pass, less its final
\* timespec element, is the non-reserved statements of the original body in
\* their original order.
C8_Original == PassRan => AllButLast(body) = NonReserved(preBody)

\* C8 as amended: the same, whenever the pass returned no error.
C8_Amended == (PassRan /\ ~PassFailed) => AllButLast(body) = NonReserved(preBody)

\* the pass succeeded on a body with a reserved assignment in first and in
\* last place and an ordinary statement between them
C8_Witness ==
    /\ PassRan /\ ~PassFailed
    /\ Len(preBody) >= 3
    /\ IsReserved(preBody[1])
    /\ IsReserved(Last(preBody))
    /\ \E i \in 2..(Len(preBody) - 1) : ~IsReserved(preBody[i])

\* C9: a well-formed table statement adds exactly one assignment of role
\* table whose value is a forward table literal with the numbers in source
\* order, records no error, and takes no token of the statement after it.
C9_TableParsed ==
    \A tl \in TableLines :
        /\ (pc = "done" /\ src = <<Title, tl>>) =>
              (nerr = 0 /\ preBody = <<ExpectedStmt(tl)>>)
        /\ \A good \in WellFormedLines :
              (pc = "done" /\ src = <<Title, tl, good>>) =>
                  (nerr = 0 /\ preBody = <<ExpectedStmt(tl), ExpectedStmt(good)>>)

\* the malformed lines of the source
MalformedCount == Cardinality({i \in 2..Len(src) : src[i] \in MalformedLines})

\* C10: a source of independent lines, k of them malformed and the rest
\* well-formed, leaves exactly k diagnostics in the buffer and an error
\* count of k.
C10_OneDiagnosticEach ==
    (/\ pc = "done"
     /\ src # <<>>
     /\ src[1] = Title
     /\ \A i \in 2..Len(src) : src[i] \in MalformedLines \cup WellFormedLines)
    => (nerr = MalformedCount /\ Len(errBuf) = MalformedCount)

\* lines whose first token is no single-character identifier
BadLeaderLines == {Line_Leader2, Line_Kind, Line_Quoted}

\* the diagnostics of declModel for a bad leading token
LeaderErrors == {i \in 1..Len(errBuf) : errBuf[i].msg = "expected 1 char ident, not"}

\* C11: when the token at the start of a statement is anything other than a
\* single-character identifier, one syntax error is reported at that token
\* and the model's parse loop stops: no statement that appears later in the
\* source is parsed or appended to the body.
C11_ModelAbort ==
    \A i \in 2..Len(src) :
        (/\ pc = "done"
         /\ src[1] = Title
         /\ src[i] \in BadLeaderLines
         /\ \A j \in 2..(i - 1) : src[j] \in WellFormedLines)
        => /\ Cardinality(LeaderErrors) = 1
           /\ nerr = 1
           /\ preBody = [j \in 1..(i - 2) |-> ExpectedStmt(src[j + 1])]

\* the reserved assignments of the body whose right-hand side does not evaluate
FailingReserved ==
    {i \in 1..Len(preBody) : IsReserved(preBody[i]) /\ ~constEval(preBody[i].rhs).ok}

\* C12: if constant evaluation of the right-hand side of an assignment named
\* TIME, LENGTH, SAVPER or DT fails, the timespec pass stops at that
\* assignment (the first that fails; the body is left as it was) and reports
\* an error that names the failing variable, the error count is incremented,
\* and Parse returns an error and no File.
C12_EvalFailureFatal ==
    (PassRan /\ FailingReserved # {}) =>
        LET k == CHOOSE i \in FailingReserved : \A j \in FailingReserved : i <= j
        IN /\ PassFailed
           /\ Last(errBuf).arg = preBody[k].name
           /\ nerr >= 1
           /\ nerr = Len(errBuf)
           /\ body = preBody
           /\ ret.returned => (ret.err /\ ~ret.file /\ ret.nerr = nerr)

\* Parse returned after the pass met two failing assignments of different
\* names, the first of them after an assignment that evaluates
C12_Witness ==
    /\ pc = "done"
    /\ ret.returned
    /\ \E i, j \in FailingReserved : i >= 2 /\ i < j /\ preBody[i].name # preBody[j].name
    /\ IsReserved(preBody[1])

\* the scanner took its fatal-error path: errorf returned the nil state
FatalScanError == l.state = "nil"

\* C13: a fatal scan error never raises at the scanner call site: after it
\* the token sequence ends with an end-of-input token, and every token
\* request the parser makes from then on, those after the first end-of-input
\* was returned included, returns end-of-input instead of crashing.
C13_FatalScanNeverRaises ==
    FatalScanError => (l.fault = "none" /\ l.out # <<>> /\ Last(l.out).kind = "itemEOF")

Delimiters == {BackTick, "\""}

\* the text after the title line holds one delimiter and no comment, and the
\* delimiter follows a separator, so it is opened and never closed
OneOpenDelimiter ==
    /\ src # <<>>
    /\ src[1] = <<"*", NL>>
    /\ \A i \in 1..Len(l.s) : l.s[i] # "/"
    /\ Cardinality({i \in 1..Len(l.s) : l.s[i] \in Delimiters}) = 1
    /\ \A i \in 2..Len(l.s) : l.s[i] \in Delimiters => l.s[i - 1] \in {NL, " ", ";", "(", ")", "-"}

\* C14: for every input in which a backquote or a double quote is opened and
\* never closed, the opening delimiter being the last character included,
\* the scanner emits no kind-declaration or quoted-literal token and takes
\* the fatal-error path instead: it does not crash, and the token it emits
\* next is end-of-input.
C14_UnterminatedDelimiter ==
    OneOpenDelimiter =>
        /\ l.fault # "panic"
        /\ \A i \in 1..Len(l.out) : l.out[i].kind \notin {"itemKindDecl", "itemLiteral"}
        /\ FatalScanError => Last(l.out).kind = "itemEOF"

Roles == {"stock", "initial", "const", "flow", "aux", "table"}

\* a statement the parser appended: a named declaration with a role and a
\* right-hand side that is an expression
WellFormedStmt(stmt) ==
    /\ stmt.name # <<>>
    /\ stmt.type \in Roles
    /\ stmt.rhs.kind \in {"BasicLit", "TableFwdExpr"}
    /\ stmt.rhs.kind = "TableFwdExpr" => stmt.rhs.ys # <<>>

\* C15: in every reachable parser state every statement the parser appended
\* to the body has a declaration with a name and a role and a right-hand
\* side that is not nil; a statement whose right-hand side failed to parse
\* (a table with a value that is no number, or with no value) is never
\* appended.
C15_BodyWellFormed ==
    \A i \in 1..Len(body) : ~Synthesized(body[i]) => WellFormedStmt(body[i])

\* C16: scanner termination: for every finite input, repeated token requests
\* reach an end-of-input token after finitely many state steps and finitely
\* many emitted tokens, also when the input ends with no newline inside an
\* identifier, a number, a line comment or the title comment. No state
\* function loops without end, and until end-of-input is emitted every
\* character of the input accounts for at most one token and one inserted
\* terminator.
C16_ScannerTerminates ==
    /\ l.fault # "hang"
    /\ ~EndOfInputEmitted => Len(l.out) <= 2 * Len(l.s)

\* the role each type tag stands for
ClaimedRole(tag) ==
    CASE tag = <<"L">> -> "stock"
      [] tag = <<"N">> -> "initial"
      [] tag = <<"C">> -> "constant"
      [] tag = <<"R">> -> "flow"
      [] tag = <<"A">> -> "auxiliary"
      [] tag = <<"T">> -> "table"

\* the identifier by which a declaration names a role
RoleIdent(role) ==
    CASE role = "constant" -> "const"
      [] role = "auxiliary" -> "aux"
      [] OTHER -> role

\* the type tag a line begins with
TagOf(line) == ToUpper(<<line[1]>>)

\* C17: the declared role of a parsed statement is determined by its type
\* tag compared case-insensitively: L gives stock, N initial, C constant,
\* R flow, A auxiliary, T table; a single-character leading identifier
\* outside these six letters never produces a statement in the body.
C17_RoleFromTag ==
    /\ [](\A line \in WellFormedLines :
            (pc = "done" /\ src = <<Title, line>>) =>
                (Len(preBody) = 1 /\ preBody[1].type = RoleIdent(ClaimedRole(TagOf(line)))))
    /\ []((pc = "done" /\ src = <<Title, Line_BadTag>>) => preBody = <<>>)
    /\ [][(pc \in ParsePCs /\ Len(body') > Len(body)) =>
            (typeTok \in TypeTags /\ Last(body').type = RoleIdent(ClaimedRole(typeTok)))]_vars
    /\ [][(pc = "stmtInto" /\ pc' # pc) =>
            IF ToUpper(Peek.val) \in TypeTags
            THEN typeTok' = ToUpper(Peek.val)
            ELSE body' = body /\ pc' = "declModel"]_vars

\* Parse is done with a stock declared by a lower-case l followed by an
\* auxiliary
C17_Witness ==
    /\ pc = "done"
    /\ src = <<Title, Line_ls3, Line_AU>>
    /\ Len(preBody) = 2
    /\ preBody[1].type = "stock"
    /\ preBody[2].type = "aux"

\* the pass was last run on a model it had processed before
RanOnProcessed == PassRan /\ \E i \in 1..Len(preBody) : Synthesized(preBody[i])

\* C18: running the timespec pass a second time over a processed main model
\* finds no reserved name, leaves every statement, the first timespec
\* included, unchanged and in place, and appends a second timespec
\* assignment with the defaults start 0, end 0, dt 1, save_step 1: the pass
\* is not idempotent.
C18_SecondPassAppendsDefaults ==
    RanOnProcessed =>
        /\ ~PassFailed
        /\ NonReserved(preBody) = preBody
        /\ Len(body) = Len(preBody) + 1
        /\ SubSeq(body, 1, Len(preBody)) = preBody
        /\ Synthesized(Last(body))
        /\ LET elts == Last(body).rhs.elts
           IN /\ Len(elts) = 4
              /\ EltIs(elts, 1, "start", DecZero)
              /\ EltIs(elts, 2, "end", DecZero)
              /\ EltIs(elts, 3, "dt", DecOne)
              /\ EltIs(elts, 4, "save_step", DecOne)
        /\ body # preBody

\* the second pass ran on a model whose first timespec carries values that
\* are not the defaults and follows an ordinary statement
C18_Witness ==
    /\ RanOnProcessed
    /\ Len(body) >= 3
    /\ Synthesized(body[Len(body) - 1])
    /\ body[Len(body) - 1] # Last(body)
    /\ ~Synthesized(body[1])

\* the text after the title line is a block comment that is never closed
OpenBlockComment ==
    /\ Len(l.s) >= 4
    /\ SubSeq(l.s, 1, 4) = <<"*", NL, "/", "*">>
    /\ \A i \in 5..(Len(l.s) - 1) : ~(l.s[i] = "*" /\ l.s[i + 1] = "/")

\* C19: an unterminated block comment is tolerated: no token is produced
\* from any text at or after its opening; the tokens emitted after entering
\* the comment are only the optional inserted terminator and the
\* end-of-input token, and the scanner neither crashes nor hangs.
C19_OpenBlockCommentTolerated ==
    OpenBlockComment =>
        /\ l.fault = "none"
        /\ \A i \in 1..Len(l.out) : l.out[i].kind \in {"itemSemi", "itemEOF"}

\* identifier, keyword, number and operator or bracket tokens
TextKinds ==
    {"itemIdentifier", "itemKeyword", "itemNumber", "itemOperator",
     "itemLBracket", "itemRBracket", "itemLParen", "itemRParen",
     "itemLSquare", "itemRSquare"}

\* the emitted tokens of those kinds
TextTokens == {i \in 1..Len(l.out) : l.out[i].kind \in TextKinds}

\* C20: the text of every emitted identifier, keyword, number and operator
\* or bracket token is not empty and equals the input substring that starts
\* at the token's recorded position and has the text's length; the slices of
\* successive tokens do not overlap and come in increasing input order.
C20_TokenTextAtPosition ==
    /\ \A i \in TextTokens :
          LET tok == l.out[i]
          IN /\ tok.val # <<>>
             /\ tok.pos + Len(tok.val) <= Len(l.s)
             /\ SubSeq(l.s, tok.pos + 1, tok.pos + Len(tok.val)) = tok.val
    /\ \A i, j \in TextTokens : i < j => l.out[i].pos + Len(l.out[i].val) <= l.out[j].pos

\* C21: the token buffer of capacity 2 never blocks or overflows: a scanner
\* state step runs only when the buffer is empty and no state step emits
\* more than two tokens, so at most two tokens are ever buffered and the
\* send in emit never waits for ever.
C21_BufferNeverBlocks ==
    /\ [](Len(l.items) <= ChanCap /\ l.fault # "block")
    /\ [][l'.out # l.out =>
            /\ l.items = <<>>
            /\ Len(l'.out) <= Len(l.out) + 2
            /\ l'.items = SubSeq(l'.out, Len(l.out) + 1, Len(l'.out))]_vars

\* the statement state filled the buffer at the end of the input: the
\* inserted terminator and the end-of-input token
C21_Witness ==
    /\ Len(l.items) = 2
    /\ l.items[1].kind = "itemSemi"
    /\ l.items[2].kind = "itemEOF"
    /\ l.fault = "none"

\* the scanner completed normally: its statement state reached the end of
\* the text and emitted end-of-input
NormalEOF ==
    /\ l.state = "statement"
    /\ l.fault = "none"
    /\ l.pos >= Len(l.s)
    /\ l.out # <<>>
    /\ Last(l.out).kind = "itemEOF"

\* the tokens a caller received after its first end-of-input token
AfterFirstEOF(q) == {i \in 1..Len(q) : \E j \in 1..(i - 1) : q[j].kind = "itemEOF"}

\* C22: end-of-input is absorbing on normal completion: once the statement
\* state has emitted end-of-input at the end of the text, every later token
\* request returns end-of-input again, with no terminator or other token in
\* between and with the scan position unchanged.
C22_EndOfInputAbsorbing ==
    /\ [](NormalEOF =>
            /\ \A i \in AfterFirstEOF(l.out) : l.out[i] = [pos |-> Len(l.s), val |-> <<>>, kind |-> "itemEOF"]
            /\ \A i \in AfterFirstEOF(got) : got[i].kind = "itemEOF")
    /\ [][NormalEOF =>
            /\ NormalEOF'
            /\ l'.pos = l.pos
            /\ l'.out # l.out =>
                  l'.out = Append(l.out, [pos |-> l.pos, val |-> <<>>, kind |-> "itemEOF"])]_vars

\* after a terminator inserted at the end of the text the caller received
\* end-of-input three times
C22_Witness ==
    /\ NormalEOF
    /\ Len(got) >= 4
    /\ got[Len(got) - 3].kind = "itemSemi"
    /\ got[Len(got) - 2].kind = "itemEOF"
    /\ got[Len(got) - 1].kind = "itemEOF"
    /\ Last(got).kind = "itemEOF"

\* the scanner did not deliver a token sequence that ends in end-of-input:
\* it crashed, hung, or is still emitting when the model stops following it
ScannerFailed == l.fault # "none" \/ Len(l.out) >= MaxTokens

CountEOF(q) == Cardinality({i \in 1..Len(q) : q[i].kind = "itemEOF"})

\* the end-of-input tokens the parser has taken from the scanner
TakenEOF == CountEOF(l.out) - CountEOF(l.items)

\* the positions of the parser inside the model loop, the table-definition
\* loop and statement discard; a step of the parser leaves every field of
\* the scanner but its buffer as it is
LoopPCs == {"declModel", "tableDef", "tableSep", "discardStmt"}

\* C23: parser termination: for every token sequence that ends in
\* end-of-input tokens Parse terminates; every turn of the model loop, of the
\* table-definition loop and of statement discard takes at least one token
\* or leaves the loop, and no loop goes on requesting tokens after
\* end-of-input has been seen: the parser takes at most two end-of-input
\* tokens.
C23_ParserTerminates ==
    /\ <>(pc = "done" \/ ScannerFailed)
    /\ [](TakenEOF <= 2)
    /\ [][(pc \in LoopPCs /\ [l' EXCEPT !.items = l.items] = l) =>
            (Len(l'.items) < Len(l.items) \/ pc' \notin LoopPCs)]_vars

\* Parse returned after the parser took two end-of-input tokens, the first
\* where it expected a right-hand side and the second in statement discard
C23_Witness ==
    /\ pc = "done"
    /\ ~ScannerFailed
    /\ TakenEOF = 2
    /\ src = <<Title, Line_CX1, Line_NoRhs>>

\* C24: when the timespec pass fails on a constant-evaluation error the body
\* is exactly as it was before the pass: the same statements in the same
\* order, every reserved assignment still in its place, and no timespec
\* assignment appended.
C24_FailedPassFrame ==
    (PassRan /\ PassFailed) =>
        /\ Len(body) = Len(preBody)
        /\ \A i \in 1..Len(preBody) : body[i] = preBody[i]
        /\ {i \in 1..Len(body) : IsReserved(body[i])} =
               {i \in 1..Len(preBody) : IsReserved(preBody[i])}
        /\ Appended = {}

\* the pass failed on the last of three statements, after a reserved
\* assignment that evaluates and an ordinary statement
C24_Witness ==
    /\ PassRan /\ PassFailed
    /\ Len(preBody) = 3
    /\ IsReserved(preBody[1]) /\ constEval(preBody[1].rhs).ok
    /\ ~IsReserved(preBody[2])
    /\ FailingReserved = {3}

\* the statements of the body before the pass that assign the reserved name
Assigning(name) == {i \in 1..Len(preBody) : ToUpper(preBody[i].name) = name}

\* the reserved names the body assigned more than once
Duplicated == {name \in ReservedNames : Cardinality(Assigning(name)) >= 2}

\* the value of the last assignment of the reserved name in body order
LastAssigned(name) ==
    LET k == CHOOSE i \in Assigning(name) : \A j \in Assigning(name) : j <= i
    IN constEval(preBody[k].rhs).val

\* the entry of the timespec value a reserved name goes to
FieldOf(name) ==
    CASE name = Chars_TIME -> [i |-> 1, key |-> "start"]
      [] name = Chars_LENGTH -> [i |-> 2, key |-> "end"]
      [] name = Chars_DT -> [i |-> 3, key |-> "dt"]
      [] name = Chars_SAVPER -> [i |-> 4, key |-> "save_step"]

\* C25: when the body assigns the same reserved name (in any letter case)
\* more than once and the pass succeeds, the timespec entry of that name
\* holds the value of the last such assignment in body order, and none of
\* the duplicate assignments is left in the body.
C25_LastDuplicateWins ==
    (PassRan /\ ~PassFailed) =>
        \A name \in Duplicated :
            /\ EltIs(Last(body).rhs.elts, FieldOf(name).i, FieldOf(name).key,
                     LastAssigned(name))
            /\ \A i \in 1..Len(body) : ToUpper(body[i].name) # name

====
